---- MODULE Spec2Model ----
(***************************************************************************)
(* A model of src/app.py: the Streamlit page that geocodes the addresses   *)
(* of an uploaded CSV, finds the nearest temple of temple_list.csv for     *)
(* each row and shows / offers the result table.                           *)
(*                                                                         *)
(* Column names and characters are written in ASCII:                       *)
(*   "place_name"  chitenmei          "address"        juusho              *)
(*   "search_address" kensaku juusho  "latlon"         ido-keido (a pair)  *)
(*   "lat" ido   "lon" keido          "temple_name"    jiinmei             *)
(*   "nearest_temple_name" ... "distance_km"   the five columns added by   *)
(*   process_data;  "memo" stands for any other column of the upload.      *)
(*   characters: "KU" (ward), "CHO" (town), "6" an ASCII digit, "FW2" a    *)
(*   full-width digit, "x" any other character.                            *)
(***************************************************************************)
EXTENDS Integers, Sequences, FiniteSets, TLC

\* ------------------------------------------------------------------ bounds
MaxAddrLen == 3
MaxCoord == 1
MaxCatalog == 3
MaxRows == 2
AppMaxRows == 1

\* ------------------------------------------------------------- characters
Digits == {"6", "FW2"}
Markers == {"KU", "CHO"}
Chars == {"x"} \cup Markers \cup Digits

SeqsUpTo(S, n) == UNION {[1..k -> S] : k \in 0..n}

\* ------------------------------------------------------------------ cells
\* A cell of a DataFrame: None, NaN (a blank CSV cell), a string, a
\* (latitude, longitude) pair or a number.  Every cell has the same fields.
NoneCell == [kind |-> "None", s |-> <<>>, n |-> 0, p |-> <<0, 0>>]
NaNCell == [kind |-> "NaN", s |-> <<>>, n |-> 0, p |-> <<0, 0>>]
StrCell(str) == [kind |-> "str", s |-> str, n |-> 0, p |-> <<0, 0>>]
PairCell(pt) == [kind |-> "pair", s |-> <<>>, n |-> 0, p |-> pt]
NumCell(num) == [kind |-> "num", s |-> <<>>, n |-> num, p |-> <<0, 0>>]

\* pandas isna(): None and NaN are both missing values.
IsNA(cell) == cell.kind \in {"None", "NaN"}

\* ------------------------------------------------------------- DataFrames
\* columns: the column labels in order; data[i]: the cells of row i (1-based
\* here, RangeIndex 0.. in pandas), aligned with columns.
DataFrame(cols, rows) == [columns |-> cols, data |-> rows]
EmptyFrame == DataFrame(<<>>, <<>>)

SeqToSet(sq) == {sq[k] : k \in DOMAIN sq}
HasColumn(df, col) == col \in SeqToSet(df.columns)
ColIndex(df, col) == CHOOSE k \in DOMAIN df.columns :
                        /\ df.columns[k] = col
                        /\ \A j \in 1..(k - 1) : df.columns[j] # col
Get(df, i, col) == df.data[i][ColIndex(df, col)]

\* df[col] = value
SetColumn(df, col, value) ==
  IF HasColumn(df, col)
    THEN DataFrame(df.columns,
           [i \in DOMAIN df.data |->
              [k \in DOMAIN df.columns |->
                 IF df.columns[k] = col THEN value ELSE df.data[i][k]]])
    ELSE DataFrame(Append(df.columns, col),
           [i \in DOMAIN df.data |-> Append(df.data[i], value)])

\* df.at[i, col] = value
SetAt(df, i, col, value) ==
  DataFrame(df.columns,
    [df.data EXCEPT ![i] =
       [k \in DOMAIN df.columns |->
          IF df.columns[k] = col THEN value ELSE df.data[i][k]]])

\* df.drop(cols, axis=1)
RECURSIVE KeepIdx(_, _, _)
KeepIdx(cols, drop, k) ==
  IF k > Len(cols) THEN <<>>
  ELSE IF cols[k] \in drop THEN KeepIdx(cols, drop, k + 1)
  ELSE <<k>> \o KeepIdx(cols, drop, k + 1)
DropColumns(df, drop) ==
  LET keep == KeepIdx(df.columns, drop, 1)
  IN  DataFrame([k \in DOMAIN keep |-> df.columns[keep[k]]],
        [i \in DOMAIN df.data |-> [k \in DOMAIN keep |-> df.data[i][keep[k]]]])

MaxOf(a, b) == IF a >= b THEN a ELSE b
PadRow(df, i) == IF i \in DOMAIN df.data THEN df.data[i]
                 ELSE [k \in DOMAIN df.columns |-> NaNCell]
\* pd.concat([a, b], axis=1) of two frames with a RangeIndex: the rows are
\* aligned on the index, a row one side lacks is filled with NaN.
ConcatAxis1(a, b) ==
  DataFrame(a.columns \o b.columns,
    [i \in 1..MaxOf(Len(a.data), Len(b.data)) |-> PadRow(a, i) \o PadRow(b, i)])

\* pd.DataFrame(list of dicts): no dict, no column.
FrameFromRecords(keys, records) ==
  IF records = <<>> THEN EmptyFrame ELSE DataFrame(keys, records)

\* ------------------------------------------------------ geocode_address
IsDigit(c) == c \in Digits

\* re.search(r'\d', address): the position of the first digit, 0 for no match
RECURSIVE SearchDigit(_, _)
SearchDigit(address, k) ==
  IF k > Len(address) THEN 0
  ELSE IF IsDigit(address[k]) THEN k
  ELSE SearchDigit(address, k + 1)

SearchAddressOffByOne(address) ==
  LET m == SearchDigit(address, 1)
  IN  IF m # 0 THEN SubSeq(address, 1, m) ELSE address

\* lines 72-76
SearchAddress(address) ==
  LET m == SearchDigit(address, 1)
  IN  IF m # 0 THEN SubSeq(address, 1, m - 1) ELSE address

RECURSIVE SearchMarker(_, _)
SearchMarker(str, k) ==
  IF k > Len(str) THEN 0
  ELSE IF str[k] \in Markers THEN k
  ELSE SearchMarker(str, k + 1)

\* line 86: re.sub(r'(ku|cho).*', r'\1', search_address)
SimplifiedAddress(str) ==
  LET m == SearchMarker(str, 1)
  IN  IF m # 0 THEN SubSeq(str, 1, m) ELSE str

\* --------------------------------------------------- find_nearest_temple
\* geodesic(p, q).km, in thousandths of a kilometre, on a grid of points
\* 1.234 km apart (a metric on the grid; no two distances differ by less
\* than a thousandth, and none ends in 5 thousandths).
Abs(x) == IF x < 0 THEN -x ELSE x
Geodesic(pt, qt) == 1234 * (Abs(pt[1] - qt[1]) + Abs(pt[2] - qt[2]))

\* round(distance, 2): thousandths to hundredths of a kilometre
Round2(d) == (d + 5) \div 10

\* bool(temple_coords): a tuple of two numbers is true, None is not
Truthy(cell) == cell.kind # "None"

NoNearest == [nearest_temple_idx |-> 0, min_distance |-> 0, inf |-> TRUE]

CloserOrEqual(distance, best) == best.inf \/ distance <= best.min_distance

\* line 107: distance < min_distance, min_distance starting at float('inf')
Closer(distance, best) == best.inf \/ distance < best.min_distance

\* lines 104-109, from catalog position idx on
RECURSIVE ScanTemples(_, _, _, _)
ScanTemples(input_coords, temple_coords, idx, best) ==
  IF idx > Len(temple_coords) THEN best
  ELSE LET distance == Geodesic(input_coords.p, temple_coords[idx].p)
       IN  IF Truthy(temple_coords[idx]) /\ Closer(distance, best)
             THEN ScanTemples(input_coords, temple_coords, idx + 1,
                    [nearest_temple_idx |-> idx, min_distance |-> distance,
                     inf |-> FALSE])
             ELSE ScanTemples(input_coords, temple_coords, idx + 1, best)

FindNearestTempleNoGuard(input_coords, temple_df) ==
  ScanTemples(input_coords,
    [i \in DOMAIN temple_df.data |-> Get(temple_df, i, "latlon")],
    1, NoNearest)

\* lines 96-113.  nearest_temple_idx = 0 stands for (None, None); otherwise
\* the catalog row (1-based) and its distance.
FindNearestTemple(input_coords, temple_df) ==
  IF input_coords.kind = "None" THEN NoNearest
  ELSE ScanTemples(input_coords,
         [i \in DOMAIN temple_df.data |-> Get(temple_df, i, "latlon")],
         1, NoNearest)

\* ------------------------------------------------------- load_temple_list
TempleColumns == <<"temple_name", "address", "search_address", "lat", "lon">>

\* temple_list.csv: absent, or a table
NoTempleFile == [exists |-> FALSE, df |-> EmptyFrame]
TempleFile(df) == [exists |-> TRUE, df |-> df]

\* lines 54-67: None (ok = FALSE) when the file is missing or when reading
\* the lat / lon columns raises; else the table with the pair column.
LoadTempleList(file) ==
  IF ~file.exists THEN [ok |-> FALSE, df |-> EmptyFrame]
  ELSE IF ~(HasColumn(file.df, "lat") /\ HasColumn(file.df, "lon"))
    THEN [ok |-> FALSE, df |-> EmptyFrame]
  ELSE LET zipped == DataFrame(Append(file.df.columns, "latlon"),
                       [i \in DOMAIN file.df.data |->
                          Append(file.df.data[i],
                            PairCell(<<Get(file.df, i, "lat").n,
                                       Get(file.df, i, "lon").n>>))])
       IN  [ok |-> TRUE, df |-> DropColumns(zipped, {"lat", "lon"})]

\* ------------------------------------------------------------------ state
VARIABLES
  pc,                  \* where the script is
  uploaded_file,       \* st.file_uploader's value
  temple_file,         \* temple_list.csv on disk
  session_state,       \* st.session_state['result_df'] (and its origin)
  shown,               \* the result section of the page as last rendered
  reports,             \* st.error / st.warning messages of this script run
  input_df,            \* process_data's input_df (changed in place)
  temple_list_df,      \* the loaded catalog
  index,               \* the row the current loop of process_data is at
  search_address,      \* geocode_address's local
  calls,               \* the geolocator.geocode calls of this script run
  since_last_call,     \* whole seconds since the last geocode call returned
  searches,            \* the find_nearest_temple calls of this script run
  nearest_temple_data, \* process_data's list of temple_info
  result_df,           \* what process_data returned
  exc,                 \* the exception that left process_data, "" for none
  arg,                 \* argument of the function applied (function specs)
  ret                  \* its result

vars == <<pc, uploaded_file, temple_file, session_state, shown, reports,
          input_df, temple_list_df, index, search_address, calls,
          since_last_call, searches, nearest_temple_data, result_df, exc,
          arg, ret>>

appVars == <<uploaded_file, temple_file, session_state, shown>>
fnVars == <<arg, ret>>

\* ----------------------------------------------------------------- inputs
RequiredColumns == <<"place_name", "address">>
NearestColumns == <<"nearest_temple_name", "nearest_temple_address",
                    "nearest_temple_search_address", "nearest_temple_latlon",
                    "distance_km">>
RowNames == <<"A", "B", "C", "D">>

\* The addresses of the sidebar's sample CSV, one without digit or marker,
\* and a blank address cell (pd.read_csv reads it as NaN).
SampleAddresses ==
  { StrCell(<<"x", "KU", "x", "6", "x">>),
    StrCell(<<"x", "CHO", "x", "FW2">>),
    StrCell(<<"x", "x">>),
    NaNCell }

\* pd.read_csv of an upload with the header cols and one row per address
InputCell(col, i, address) ==
  IF col = "place_name" THEN StrCell(<<RowNames[i]>>)
  ELSE IF col = "address" THEN address
  ELSE StrCell(<<"m">>)
InputTable(cols, addresses) ==
  DataFrame(cols,
    [i \in DOMAIN addresses |->
       [k \in DOMAIN cols |-> InputCell(cols[k], i, addresses[i])]])

\* st.file_uploader's value: None, a file without any content (read_csv
\* raises EmptyDataError), or a CSV with a header
NoFile == [present |-> FALSE, blank |-> FALSE, df |-> EmptyFrame]
BlankFile == [present |-> TRUE, blank |-> TRUE, df |-> EmptyFrame]
CsvFile(df) == [present |-> TRUE, blank |-> FALSE, df |-> df]

\* temple_list.csv: three temples, two of them equally far from one corner
SampleTemples ==
  << <<StrCell(<<"T1">>), StrCell(<<"x", "KU", "6">>), StrCell(<<"x", "KU">>),
       NumCell(0), NumCell(MaxCoord)>>,
     <<StrCell(<<"T2">>), StrCell(<<"x", "CHO", "6">>), StrCell(<<"x", "CHO">>),
       NumCell(MaxCoord), NumCell(0)>>,
     <<StrCell(<<"T3">>), StrCell(<<"x", "x">>), StrCell(<<"x", "x">>),
       NumCell(0), NumCell(0)>> >>
TempleTable(rows) == DataFrame(TempleColumns, rows)

\* what geolocator.geocode does: a location, None, or a raised error
GeocoderPoints == {<<0, 0>>, <<MaxCoord, MaxCoord>>}
GeocodeOutcomes ==
  {[status |-> "none", p |-> <<0, 0>>], [status |-> "error", p |-> <<0, 0>>]}
    \cup {[status |-> "found", p |-> q] : q \in GeocoderPoints}

\* line 80: time.sleep(1)
SleepSeconds == 1
\* line 51: one request per second
MinSpacingSeconds == 1

NothingShown == [present |-> FALSE, df |-> EmptyFrame, source |-> NoFile]
NoResult == [has_result |-> FALSE, result_df |-> EmptyFrame, source |-> NoFile]

\* ---------------------------------------------------------- process_data
\* lines 117-127
EnterProcessData ==
  /\ pc = "process_data"
  /\ input_df' = SetColumn(SetColumn(input_df, "search_address", NoneCell),
                           "latlon", NoneCell)
  /\ index' = 1
  /\ pc' = "geocode_loop"
  /\ UNCHANGED <<appVars, fnVars, reports, temple_list_df, search_address,
                 calls, since_last_call, searches, nearest_temple_data,
                 result_df, exc>>

\* lines 130-135 and 72-80: the next row; re.search raises TypeError on an
\* address that is not a string, outside geocode_address's try
GeocodeRow ==
  /\ pc = "geocode_loop"
  /\ index <= Len(input_df.data)
  /\ LET address == Get(input_df, index, "address")
     IN  IF address.kind # "str"
           THEN /\ pc' = "raised"
                /\ exc' = "TypeError"
                /\ UNCHANGED <<search_address, since_last_call>>
           ELSE /\ search_address' = SearchAddress(address.s)
                /\ since_last_call' = since_last_call + SleepSeconds
                /\ pc' = "first_call"
                /\ UNCHANGED exc
  /\ UNCHANGED <<appVars, fnVars, reports, input_df, temple_list_df, index,
                 calls, searches, nearest_temple_data, result_df>>

\* lines 136-137 with geocode_address's return value
StoreRow(df, i, returned_address, coords) ==
  SetAt(SetAt(df, i, "search_address", StrCell(returned_address)),
        i, "latlon", coords)

RetryUnlessFound(status) == status # "found"

\* lines 82-85: the else branch of `if location`; a raised error leaves the
\* try block instead
RetryOnNoMatch(status) == status = "none"

\* line 81-84, 92-94
FirstCall ==
  /\ pc = "first_call"
  /\ \E outcome \in GeocodeOutcomes :
       /\ calls' = Append(calls, [row |-> index, query |-> search_address,
                                  gap |-> since_last_call,
                                  status |-> outcome.status, p |-> outcome.p])
       /\ since_last_call' = 0
       /\ IF RetryOnNoMatch(outcome.status)
            THEN /\ pc' = "second_call"
                 /\ UNCHANGED <<input_df, index, reports>>
            ELSE /\ pc' = "geocode_loop"
                 /\ index' = index + 1
                 /\ input_df' = StoreRow(input_df, index, search_address,
                                  IF outcome.status = "found"
                                    THEN PairCell(outcome.p) ELSE NoneCell)
                 /\ reports' = IF outcome.status = "error"
                                 THEN reports \cup {"geocode_warning"}
                                 ELSE reports
  /\ UNCHANGED <<appVars, fnVars, temple_list_df, search_address, searches,
                 nearest_temple_data, result_df, exc>>

\* lines 86-94
SecondCall ==
  /\ pc = "second_call"
  /\ \E outcome \in GeocodeOutcomes :
       LET simplified_address == SimplifiedAddress(search_address)
       IN  /\ calls' = Append(calls, [row |-> index,
                                      query |-> simplified_address,
                                      gap |-> since_last_call,
                                      status |-> outcome.status,
                                      p |-> outcome.p])
           /\ since_last_call' = 0
           /\ input_df' = IF outcome.status = "found"
                            THEN StoreRow(input_df, index, simplified_address,
                                          PairCell(outcome.p))
                            ELSE StoreRow(input_df, index, search_address,
                                          NoneCell)
           /\ reports' = IF outcome.status = "error"
                           THEN reports \cup {"geocode_warning"}
                           ELSE reports
  /\ index' = index + 1
  /\ pc' = "geocode_loop"
  /\ UNCHANGED <<appVars, fnVars, temple_list_df, search_address, searches,
                 nearest_temple_data, result_df, exc>>

\* lines 139-141
StartMatching ==
  /\ pc = "geocode_loop"
  /\ index > Len(input_df.data)
  /\ pc' = "match_loop"
  /\ index' = 1
  /\ nearest_temple_data' = <<>>
  /\ UNCHANGED <<appVars, fnVars, reports, input_df, temple_list_df,
                 search_address, calls, since_last_call, searches, result_df,
                 exc>>

\* lines 147-161: the dict of one row, in the order of NearestColumns
TempleInfo(nearest, temple_df) ==
  IF nearest.nearest_temple_idx # 0
    THEN << Get(temple_df, nearest.nearest_temple_idx, "temple_name"),
            Get(temple_df, nearest.nearest_temple_idx, "address"),
            Get(temple_df, nearest.nearest_temple_idx, "search_address"),
            Get(temple_df, nearest.nearest_temple_idx, "latlon"),
            NumCell(Round2(nearest.min_distance)) >>
    ELSE <<NoneCell, NoneCell, NoneCell, NoneCell, NoneCell>>

\* the columns lines 148-151 read from the nearest temple's row
TempleInfoColumns == {"temple_name", "address", "search_address", "latlon"}

\* lines 143-163: one row; reading a column the catalog lacks raises KeyError
MatchRow ==
  /\ pc = "match_loop"
  /\ index <= Len(input_df.data)
  /\ searches' = searches + 1
  /\ LET nearest == FindNearestTemple(Get(input_df, index, "latlon"),
                                      temple_list_df)
     IN  IF /\ nearest.nearest_temple_idx # 0
            /\ ~(TempleInfoColumns \subseteq SeqToSet(temple_list_df.columns))
           THEN /\ pc' = "raised"
                /\ exc' = "KeyError"
                /\ UNCHANGED <<nearest_temple_data, index>>
           ELSE /\ nearest_temple_data' =
                     Append(nearest_temple_data,
                            TempleInfo(nearest, temple_list_df))
                /\ index' = index + 1
                /\ UNCHANGED <<pc, exc>>
  /\ UNCHANGED <<appVars, fnVars, reports, input_df, temple_list_df,
                 search_address, calls, since_last_call, result_df>>

\* pd.DataFrame(nearest_temple_data): a column holding numbers is a float
\* column, in which None is stored as NaN
NoneToNaN(records) ==
  [i \in DOMAIN records |->
     [k \in DOMAIN records[i] |->
        IF /\ records[i][k].kind = "None"
           /\ \E j \in DOMAIN records : records[j][k].kind = "num"
          THEN NaNCell ELSE records[i][k]]]

\* lines 165-174
ReturnResult ==
  /\ pc = "match_loop"
  /\ index > Len(input_df.data)
  /\ result_df' = ConcatAxis1(input_df,
                    FrameFromRecords(NearestColumns,
                                     NoneToNaN(nearest_temple_data)))
  /\ pc' = "returned"
  /\ UNCHANGED <<appVars, fnVars, reports, input_df, temple_list_df, index,
                 search_address, calls, since_last_call, searches,
                 nearest_temple_data, exc>>

ProcessData ==
  \/ EnterProcessData
  \/ GeocodeRow
  \/ FirstCall
  \/ SecondCall
  \/ StartMatching
  \/ MatchRow
  \/ ReturnResult

\* process_data called on a table with the required columns and a catalog
\* that load_temple_list loaded
BatchTables ==
  {InputTable(RequiredColumns, a) : a \in SeqsUpTo(SampleAddresses, MaxRows)}
BatchTempleFiles == {TempleFile(TempleTable(<<>>)),
                     TempleFile(TempleTable(SampleTemples))}

Init ==
  /\ pc = "process_data"
  /\ uploaded_file \in {CsvFile(t) : t \in BatchTables}
  /\ temple_file \in BatchTempleFiles
  /\ input_df = uploaded_file.df
  /\ temple_list_df = LoadTempleList(temple_file).df
  /\ session_state = NoResult
  /\ shown = NothingShown
  /\ reports = {}
  /\ index = 0
  /\ search_address = <<>>
  /\ calls = <<>>
  /\ since_last_call = 0
  /\ searches = 0
  /\ nearest_temple_data = <<>>
  /\ result_df = EmptyFrame
  /\ exc = ""
  /\ arg = <<>>
  /\ ret = <<>>

Next == ProcessData

Spec == Init /\ [][Next]_vars

\* ------------------------------------------------- the functions alone
procVars == <<reports, input_df, temple_list_df, index, search_address, calls,
              since_last_call, searches, nearest_temple_data, result_df, exc>>

NothingRunning ==
  /\ uploaded_file = NoFile
  /\ temple_file = NoTempleFile
  /\ session_state = NoResult
  /\ shown = NothingShown
  /\ reports = {}
  /\ input_df = EmptyFrame
  /\ temple_list_df = EmptyFrame
  /\ index = 0
  /\ search_address = <<>>
  /\ calls = <<>>
  /\ since_last_call = 0
  /\ searches = 0
  /\ nearest_temple_data = <<>>
  /\ result_df = EmptyFrame
  /\ exc = ""

Addresses == SeqsUpTo(Chars, MaxAddrLen)

InitNormalize ==
  /\ pc = "call"
  /\ arg \in Addresses
  /\ ret = [search_address |-> <<>>, simplified_address |-> <<>>]
  /\ NothingRunning

\* geocode_address up to line 76
CallSearchAddress ==
  /\ pc = "call"
  /\ ret' = [ret EXCEPT !.search_address = SearchAddress(arg)]
  /\ pc' = "searched"
  /\ UNCHANGED <<appVars, procVars, arg>>

\* line 86, reached when the first call found nothing
CallSimplifiedAddress ==
  /\ pc = "searched"
  /\ ret' = [ret EXCEPT !.simplified_address =
                          SimplifiedAddress(ret.search_address)]
  /\ pc' = "simplified"
  /\ UNCHANGED <<appVars, procVars, arg>>

NextNormalize == CallSearchAddress \/ CallSimplifiedAddress

SpecNormalize == InitNormalize /\ [][NextNormalize]_vars

GridPoints == (0..MaxCoord) \X (0..MaxCoord)

\* a catalog as load_temple_list returns it, with temples at the points
CatalogAt(points) ==
  LoadTempleList(TempleFile(TempleTable(
    [i \in DOMAIN points |->
       <<StrCell(<<"T", RowNames[i]>>), StrCell(<<"x", "6">>),
         StrCell(<<"x">>), NumCell(points[i][1]), NumCell(points[i][2])>>]))).df

InitNearest ==
  /\ pc = "call"
  /\ \E c \in {NoneCell} \cup {PairCell(q) : q \in GridPoints},
        points \in SeqsUpTo(GridPoints, MaxCatalog) :
       arg = [input_coords |-> c, temple_df |-> CatalogAt(points)]
  /\ ret = NoNearest
  /\ NothingRunning

\* lines 96-113
CallFindNearestTemple ==
  /\ pc = "call"
  /\ ret' = FindNearestTemple(arg.input_coords, arg.temple_df)
  /\ pc' = "found"
  /\ UNCHANGED <<appVars, procVars, arg>>

NextNearest == CallFindNearestTemple

SpecNearest == InitNearest /\ [][NextNearest]_vars

\* ------------------------------------------------------- the page's script
\* line 192: the required columns the upload lacks
MissingColumns(df) ==
  {RequiredColumns[k] : k \in DOMAIN RequiredColumns} \ SeqToSet(df.columns)

\* lines 221-283: the result section.  result_df['distance_km'] raises
\* KeyError when the column is not there, which line 287 catches and reports.
DisplayResult(session, reps) ==
  IF ~session.has_result
    THEN [shown |-> NothingShown, reports |-> reps]
  ELSE IF ~HasColumn(session.result_df, "distance_km")
    THEN [shown |-> NothingShown, reports |-> reps \cup {"exception"}]
  ELSE [shown |-> [present |-> TRUE, df |-> session.result_df,
                   source |-> session.source],
        reports |-> reps]

\* lines 185-222 and 291-293: one run of the script on `file`, the process
\* button pressed or not, up to the call of process_data
RunScript(file, button) ==
  /\ calls' = <<>>
  /\ searches' = 0
  /\ since_last_call' = 0
  /\ exc' = ""
  /\ UNCHANGED <<temple_file, session_state, fnVars, index, search_address,
                 nearest_temple_data, result_df>>
  /\ IF ~file.present
       THEN /\ reports' = {}
            /\ shown' = NothingShown
            /\ pc' = "idle"
            /\ UNCHANGED <<input_df, temple_list_df>>
     ELSE IF file.blank
       THEN /\ reports' = {"empty_file"}
            /\ shown' = NothingShown
            /\ pc' = "idle"
            /\ UNCHANGED <<input_df, temple_list_df>>
     ELSE IF MissingColumns(file.df) # {}
       THEN /\ reports' = {"missing_columns"}
            /\ shown' = NothingShown
            /\ pc' = "idle"
            /\ UNCHANGED <<input_df, temple_list_df>>
     ELSE IF ~LoadTempleList(temple_file).ok
       THEN /\ reports' = {"temple_list_error"}
            /\ shown' = NothingShown
            /\ pc' = "idle"
            /\ UNCHANGED <<input_df, temple_list_df>>
     ELSE IF button
       THEN /\ reports' = {}
            /\ shown' = NothingShown
            /\ pc' = "process_data"
            /\ input_df' = file.df
            /\ temple_list_df' = LoadTempleList(temple_file).df
     ELSE /\ reports' = DisplayResult(session_state, {}).reports
          /\ shown' = DisplayResult(session_state, {}).shown
          /\ pc' = "idle"
          /\ UNCHANGED <<input_df, temple_list_df>>

\* line 209: the button is on the page when the last run got that far
ButtonRendered ==
  /\ uploaded_file.present
  /\ ~uploaded_file.blank
  /\ MissingColumns(uploaded_file.df) = {}
  /\ LoadTempleList(temple_file).ok

AppColumnSets ==
  { RequiredColumns, <<"place_name">>, <<"address">>,
    <<"place_name", "address", "memo">>,
    <<"place_name", "address", "search_address">> }
AppFiles ==
  {BlankFile} \cup
  {CsvFile(InputTable(cols, a)) :
     cols \in AppColumnSets, a \in SeqsUpTo(SampleAddresses, AppMaxRows)}

\* the user puts a file into the uploader
UploadFile ==
  /\ pc = "idle"
  /\ \E file \in AppFiles \ {uploaded_file} :
       /\ uploaded_file' = file
       /\ RunScript(file, FALSE)

\* the user clears the uploader
RemoveFile ==
  /\ pc = "idle"
  /\ uploaded_file.present
  /\ uploaded_file' = NoFile
  /\ RunScript(NoFile, FALSE)

\* the user presses the process button
PressButton ==
  /\ pc = "idle"
  /\ ButtonRendered
  /\ UNCHANGED uploaded_file
  /\ RunScript(uploaded_file, TRUE)

\* any other widget (a download button) reruns the script
Rerun ==
  /\ pc = "idle"
  /\ UNCHANGED uploaded_file
  /\ RunScript(uploaded_file, FALSE)

\* lines 212-283: process_data returned
ProcessReturned ==
  /\ pc = "returned"
  /\ session_state' = [has_result |-> TRUE, result_df |-> result_df,
                       source |-> uploaded_file]
  /\ reports' = DisplayResult(session_state', reports).reports
  /\ shown' = DisplayResult(session_state', reports).shown
  /\ pc' = "idle"
  /\ UNCHANGED <<uploaded_file, temple_file, fnVars, input_df, temple_list_df,
                 index, search_address, calls, since_last_call, searches,
                 nearest_temple_data, result_df, exc>>

\* lines 287-289: process_data raised
ProcessRaised ==
  /\ pc = "raised"
  /\ reports' = reports \cup {"exception"}
  /\ shown' = NothingShown
  /\ pc' = "idle"
  /\ UNCHANGED <<uploaded_file, temple_file, session_state, fnVars, input_df,
                 temple_list_df, index, search_address, calls,
                 since_last_call, searches, nearest_temple_data, result_df,
                 exc>>

\* temple_list.csv beside the script: missing, complete, or lacking a column
AppTempleFiles ==
  { NoTempleFile,
    TempleFile(TempleTable(SampleTemples)),
    TempleFile(DropColumns(TempleTable(SampleTemples), {"lat"})),
    TempleFile(DropColumns(TempleTable(SampleTemples), {"temple_name"})),
    TempleFile(DropColumns(TempleTable(SampleTemples), {"address"})) }

InitApp ==
  /\ pc = "idle"
  /\ uploaded_file = NoFile
  /\ temple_file \in AppTempleFiles
  /\ session_state = NoResult
  /\ shown = NothingShown
  /\ reports = {}
  /\ input_df = EmptyFrame
  /\ temple_list_df = EmptyFrame
  /\ index = 0
  /\ search_address = <<>>
  /\ calls = <<>>
  /\ since_last_call = 0
  /\ searches = 0
  /\ nearest_temple_data = <<>>
  /\ result_df = EmptyFrame
  /\ exc = ""
  /\ arg = <<>>
  /\ ret = <<>>

NextApp ==
  \/ UploadFile
  \/ RemoveFile
  \/ PressButton
  \/ Rerun
  \/ ProcessData
  \/ ProcessReturned
  \/ ProcessRaised

SpecApp == InitApp /\ [][NextApp]_vars

\* ----------------------------------------------------------------- claims
NRows == Len(uploaded_file.df.data)
RowCalls(i) == SelectSeq(calls, LAMBDA c : c.row = i)

\* the rows geocode_address has returned for
GeocodedRows ==
  IF pc \in {"process_data", "geocode_loop", "first_call", "second_call"}
       \/ (pc = "raised" /\ exc = "TypeError")
    THEN 1..(index - 1)
  ELSE IF pc \in {"match_loop", "returned"} \/ (pc = "raised" /\ exc = "KeyError")
    THEN 1..Len(input_df.data)
  ELSE {}

IsPrefix(q, str) == Len(q) <= Len(str) /\ q = SubSeq(str, 1, Len(q))
\* q is str cut strictly before its first digit
CutBeforeFirstDigit(q, str) ==
  /\ IsPrefix(q, str)
  /\ \A k \in DOMAIN q : q[k] \notin Digits
  /\ Len(q) < Len(str) => str[Len(q) + 1] \in Digits
\* f is str cut right after its first KU or CHO, str itself when it has none
CutAfterFirstMarker(f, str) ==
  /\ IsPrefix(f, str)
  /\ IF \E k \in DOMAIN str : str[k] \in Markers
       THEN /\ f # <<>>
            /\ f[Len(f)] \in Markers
            /\ \A k \in 1..(Len(f) - 1) : f[k] \notin Markers
       ELSE f = str

\* C1: process_data returns a table with exactly one row per input row, row
\* i carrying the name and address of input row i, whatever the table and
\* the geocode outcomes.
C1_ReturnsOneRowPerInputRow ==
  pc \in {"returned", "raised"} =>
    /\ pc = "returned"
    /\ Len(result_df.data) = NRows
    /\ \A i \in 1..NRows :
         /\ Get(result_df, i, "place_name") = Get(uploaded_file.df, i, "place_name")
         /\ Get(result_df, i, "address") = Get(uploaded_file.df, i, "address")

\* C2: on a non-empty catalog and a present coordinate find_nearest_temple
\* returns an entry at the minimum distance over the catalog, with that
\* distance, and no entry before it in the catalog is as near.
C2_NearestIsFirstMinimum ==
  (pc = "found" /\ arg.input_coords.kind = "pair"
     /\ Len(arg.temple_df.data) > 0) =>
    LET D(i) == Geodesic(arg.input_coords.p, Get(arg.temple_df, i, "latlon").p)
        n == Len(arg.temple_df.data)
    IN  /\ ret.nearest_temple_idx \in 1..n
        /\ ~ret.inf
        /\ ret.min_distance = D(ret.nearest_temple_idx)
        /\ \A j \in 1..n : D(j) >= ret.min_distance
        /\ \A j \in 1..(ret.nearest_temple_idx - 1) : D(j) > ret.min_distance

C2_Witness ==
  /\ pc = "found"
  /\ arg.input_coords.kind = "pair"
  /\ ret.nearest_temple_idx > 1
  /\ \E j \in DOMAIN arg.temple_df.data :
       /\ j > ret.nearest_temple_idx
       /\ Geodesic(arg.input_coords.p, Get(arg.temple_df, j, "latlon").p)
            = ret.min_distance

\* C3 as stated: for each row geocode_address returned for, the first query
\* is the search address; a first attempt without coordinate (no match, or a
\* raised error) is followed by exactly one query with the address cut after
\* its first KU or CHO; a first attempt with a coordinate by none.
C3_RetryAfterNoMatchOrError ==
  \A i \in GeocodedRows :
    LET cs == RowCalls(i)
    IN  /\ Len(cs) >= 1
        /\ CutBeforeFirstDigit(cs[1].query, Get(uploaded_file.df, i, "address").s)
        /\ cs[1].status = "found" => Len(cs) = 1
        /\ cs[1].status \in {"none", "error"} =>
             /\ Len(cs) = 2
             /\ CutAfterFirstMarker(cs[2].query, cs[1].query)

\* C3 amended: the second query follows a first attempt that returned no
\* match, and only that; after a raised error, as after a coordinate, the
\* row gets no further query.
C3_RetryAfterNoMatchOnly ==
  /\ \A i \in 1..NRows : Len(RowCalls(i)) <= 2
  /\ \A i \in GeocodedRows :
       LET cs == RowCalls(i)
       IN  /\ Len(cs) >= 1
           /\ CutBeforeFirstDigit(cs[1].query,
                                  Get(uploaded_file.df, i, "address").s)
           /\ cs[1].status \in {"found", "error"} => Len(cs) = 1
           /\ cs[1].status = "none" =>
                /\ Len(cs) = 2
                /\ CutAfterFirstMarker(cs[2].query, cs[1].query)

C3_Witness ==
  /\ pc = "returned"
  /\ \E i \in 1..NRows : RowCalls(i)[1].status = "error"
  /\ \E j \in 1..NRows :
       /\ Len(RowCalls(j)) = 2
       /\ RowCalls(j)[2].query # RowCalls(j)[1].query

\* C4: any two successive geocode calls of a batch, of the same row or of
\* different rows, are at least one second apart.
C4_CallsOneSecondApart ==
  \A k \in 2..Len(calls) : calls[k].gap >= MinSpacingSeconds

RowFailed(i) == \A k \in DOMAIN calls : calls[k].row = i => calls[k].status # "found"
SameValue(a, b) == a = b \/ (IsNA(a) /\ IsNA(b))
\* what row i's own address and own geocode calls give
OwnCoords(i) ==
  LET cs == RowCalls(i)
  IN  IF cs[Len(cs)].status = "found" THEN PairCell(cs[Len(cs)].p) ELSE NoneCell
OwnSearchAddress(i) ==
  LET cs == RowCalls(i)
  IN  IF cs[Len(cs)].status = "found" THEN cs[Len(cs)].query ELSE cs[1].query
OwnNearest(i) ==
  TempleInfo(FindNearestTemple(OwnCoords(i), temple_list_df), temple_list_df)

\* C5: a row whose geocoding fails ends with an absent coordinate and five
\* absent match fields; no geocoding failure makes process_data raise; and
\* every row's output is what its own address and its own geocode outcomes
\* give, whatever happened to the other rows.
C5_FailedRowDegradesAlone ==
  /\ pc = "raised" =>
       /\ exc = "TypeError"
       /\ Get(input_df, index, "address").kind # "str"
  /\ \A i \in GeocodedRows : RowFailed(i) => IsNA(Get(input_df, i, "latlon"))
  /\ pc = "returned" =>
       /\ Len(result_df.data) = NRows
       /\ \A i \in 1..NRows :
            /\ RowFailed(i) =>
                 /\ IsNA(Get(result_df, i, "latlon"))
                 /\ \A k \in DOMAIN NearestColumns :
                      IsNA(Get(result_df, i, NearestColumns[k]))
            /\ Get(result_df, i, "place_name") = Get(uploaded_file.df, i, "place_name")
            /\ Get(result_df, i, "address") = Get(uploaded_file.df, i, "address")
            /\ Get(result_df, i, "search_address") = StrCell(OwnSearchAddress(i))
            /\ Get(result_df, i, "latlon") = OwnCoords(i)
            /\ \A k \in DOMAIN NearestColumns :
                 SameValue(Get(result_df, i, NearestColumns[k]), OwnNearest(i)[k])

C5_Witness ==
  /\ pc = "returned"
  /\ \E i, j \in 1..NRows :
       /\ i < j
       /\ RowFailed(i)
       /\ \E k \in DOMAIN calls : calls[k].row = i /\ calls[k].status = "error"
       /\ ~RowFailed(j)
       /\ Get(result_df, j, "distance_km").kind = "num"
       /\ IsNA(Get(result_df, i, "distance_km"))

\* the catalog columns the page needs of temple_list.csv
CatalogRequiredColumns == {"temple_name", "address", "lat", "lon"}

\* C6: in a run whose upload or whose catalog lacks a required column, no
\* geocode call and no nearest-temple search happens.
C6_MissingColumnStopsBeforeAnyRow ==
  ( \/ (uploaded_file.present /\ ~uploaded_file.blank
          /\ MissingColumns(uploaded_file.df) # {})
    \/ (temple_file.exists
          /\ ~(CatalogRequiredColumns \subseteq SeqToSet(temple_file.df.columns))) )
  => (calls = <<>> /\ searches = 0)

\* C7: with an upload of zero rows (and a catalog that loads) no run of the
\* script reports an error, neither in process_data nor in the result
\* section.
C7_EmptyInputReportsNothing ==
  ( /\ pc = "idle"
    /\ ButtonRendered
    /\ uploaded_file.df.data = <<>> )
  => reports = {}

\* C8: every column of the upload other than the two required ones is in
\* the returned table exactly once, under its name, with the upload's values.
C8_OtherColumnsPassThrough ==
  pc = "returned" =>
    \A k \in DOMAIN uploaded_file.df.columns :
      LET col == uploaded_file.df.columns[k]
      IN  col \notin SeqToSet(RequiredColumns) =>
            /\ Cardinality({j \in DOMAIN result_df.columns :
                              result_df.columns[j] = col}) = 1
            /\ \A i \in 1..NRows :
                 Get(result_df, i, col) = Get(uploaded_file.df, i, col)

\* C9: the search address is the address cut strictly before its first
\* digit, the whole address when it has no digit: a prefix of the address
\* without any digit.
C9_SearchAddressCutBeforeFirstDigit ==
  pc \in {"searched", "simplified"} =>
    /\ CutBeforeFirstDigit(ret.search_address, arg)
    /\ (\A k \in DOMAIN arg : arg[k] \notin Digits) => ret.search_address = arg

C9_Witness ==
  /\ pc = "searched"
  /\ Len(arg) = MaxAddrLen
  /\ arg[2] = "FW2"
  /\ arg[3] = "6"
  /\ ret.search_address = <<arg[1]>>

\* C10: the result table on the page was computed from the file that is in
\* the uploader now.
C10_ShownResultIsOfCurrentUpload ==
  shown.present => shown.source = uploaded_file

====
